---- MODULE Spec2Model ----
(***************************************************************************)
(* WellnessHub gamification bookkeeping: the User document (points, level, *)
(* streak, achievements), the Achievement matcher and the Challenge        *)
(* progress tracker, as implemented by the Mongoose models under           *)
(* server/src/models.                                                      *)
(*                                                                         *)
(* Time is counted in units of half a day (43 200 000 ms), so the          *)
(* constant 1000 * 60 * 60 * 24 of the streak hook is DayLen = 2 units.    *)
(***************************************************************************)
EXTENDS Integers, Sequences, FiniteSets, TLC

VARIABLES now, user, pre, resp, catalog, challenge, hist, calls, limiter, team

vars == <<now, user, pre, resp, catalog, challenge, hist, calls, limiter, team>>

\* ------------------------------------------------------------------ bounds
MaxTime == 4
MaxPoints == 2000
MaxLogins == 1
MaxChTime == 1
PointAmounts == {500, 1000}
SpendAmounts == {500, 1000}
Passwords == {1, 2}
AchIds == {1, 2}

\* --------------------------------------------------------------- constants
DayLen == 2
XpPerLevel == 1000
NoDate == -1
WelcomeId == 1

Day(t) == t \div DayLen

\* ------------------------------------------------------------- User model
Hash(p) == <<"bcrypt", p>>

NewUser(t, p) ==
  [ level |-> 1, experience |-> 0, totalPoints |-> 0, availablePoints |-> 0,
    currentStreak |-> 0, longestStreak |-> 0, lastActivityDate |-> t,
    achievements |-> <<>>, activeChallenges |-> <<>>, password |-> Hash(p),
    firstName |-> 1,
    lastLoginAt |-> NoDate, loginCount |-> 0 ]

\* pre('save'): hash the password when it was modified
hashPassword(u, modified) ==
  IF ~modified THEN u ELSE [u EXCEPT !.password = Hash(@)]

\* variant: the level computed without the + 1
updateLevel_noPlusOne(u) ==
  LET newLevel == u.experience \div XpPerLevel
  IN  IF newLevel > u.level THEN [u EXCEPT !.level = newLevel] ELSE u

\* pre('save'): level from experience, only ever raised
updateLevel(u) ==
  LET newLevel == (u.experience \div XpPerLevel) + 1
  IN  IF newLevel > u.level THEN [u EXCEPT !.level = newLevel] ELSE u

\* variant: a broken streak restarts at 0 instead of 1
updateStreak_resetZero(u, t) ==
  LET daysSinceLastActivity == (t - u.lastActivityDate) \div DayLen
      u1 == IF daysSinceLastActivity = 1
              THEN LET c == u.currentStreak + 1
                   IN  [u EXCEPT !.currentStreak = c,
                                 !.longestStreak = IF c > @ THEN c ELSE @]
            ELSE IF daysSinceLastActivity > 1
              THEN [u EXCEPT !.currentStreak = 0]
            ELSE u
  IN  [u1 EXCEPT !.lastActivityDate = t]

\* pre('save'): streak from the whole days elapsed since lastActivityDate
updateStreak(u, t) ==
  LET daysSinceLastActivity == (t - u.lastActivityDate) \div DayLen
      u1 == IF daysSinceLastActivity = 1
              THEN LET c == u.currentStreak + 1
                   IN  [u EXCEPT !.currentStreak = c,
                                 !.longestStreak = IF c > @ THEN c ELSE @]
            ELSE IF daysSinceLastActivity > 1
              THEN [u EXCEPT !.currentStreak = 1]
            ELSE u
  IN  [u1 EXCEPT !.lastActivityDate = t]

\* document.save(): the three pre-save hooks in registration order
save(u, t, pwModified) == updateStreak(updateLevel(hashPassword(u, pwModified)), t)

matchPassword(u, entered) == u.password = Hash(entered)

\* variant: experience assigned instead of incremented
addPoints_assignXp(u, points, t) ==
  save([u EXCEPT !.totalPoints = @ + points,
                 !.availablePoints = @ + points,
                 !.experience = points], t, FALSE)

addPoints(u, points, t) ==
  save([u EXCEPT !.totalPoints = @ + points,
                 !.availablePoints = @ + points,
                 !.experience = @ + points], t, FALSE)

\* variant: no balance guard
spendPointsThrows_never(u, points) == FALSE

\* variant: the guard rejects spending the exact balance
spendPointsThrows_lte(u, points) == u.availablePoints <= points

spendPointsThrows(u, points) == u.availablePoints < points

\* variant: spending also lowers the cumulative total
spendPoints_lowersTotal(u, points, t) ==
  save([u EXCEPT !.availablePoints = @ - points, !.totalPoints = @ - points], t, FALSE)

spendPoints(u, points, t) ==
  save([u EXCEPT !.availablePoints = @ - points], t, FALSE)

HasAchievement(u, id) == \E i \in 1..Len(u.achievements) : u.achievements[i].achievementId = id

AchIndex(u, id) == CHOOSE i \in 1..Len(u.achievements) : u.achievements[i].achievementId = id

Max(a, b) == IF a > b THEN a ELSE b

unlockAchievement(u, id, progress, t) ==
  LET u1 ==
        IF ~HasAchievement(u, id)
          THEN [u EXCEPT !.achievements =
                  Append(@, [achievementId |-> id, progress |-> progress, unlockedAt |-> t])]
        ELSE LET i == AchIndex(u, id)
                 e == u.achievements[i]
             IN  IF e.progress < 100 /\ progress >= 100
                   THEN [u EXCEPT !.achievements[i] =
                           [e EXCEPT !.progress = progress, !.unlockedAt = t]]
                   ELSE [u EXCEPT !.achievements[i].progress = Max(e.progress, progress)]
  IN  save(u1, t, FALSE)

\* ------------------------------------------------------------ responses
Resp(op, arg, result, t) ==
  [op |-> op, arg |-> arg, arg2 |-> 0, result |-> result, at |-> t, stats |-> <<>>, out |-> <<>>]

NoCatalog == <<>>
\* a nullable number: null, or the number n
Null == <<>>
Number(n) == <<n>>

NewChallenge(type, maxParticipants, allowJoinAfterStart, startDate) ==
  [ type |-> type, maxParticipants |-> maxParticipants,
    teamSettings |-> [allowJoinAfterStart |-> allowJoinAfterStart],
    startDate |-> startDate, participants |-> <<>>,
    stats |-> [totalParticipants |-> 0, completionRate |-> 0, averageProgress |-> 0] ]

NoChallenge == NewChallenge("individual", Null, FALSE, 0)
NoHist == <<>>
NoCalls == <<>>
NoLimiter == <<>>
NoTeam == <<>>

\* ---------------------------------------------------------- User actions
Init ==
  /\ now \in 0..(DayLen - 1)
  /\ user = NewUser(now, 1)
  /\ pre = user
  /\ resp = Resp("register", 0, "ok", now)
  /\ catalog = NoCatalog
  /\ challenge = NoChallenge
  /\ hist = NoHist
  /\ calls = NoCalls
  /\ limiter = NoLimiter
  /\ team = NoTeam

Tick ==
  /\ now < MaxTime
  /\ now' = now + 1
  /\ UNCHANGED <<user, pre, resp, catalog, challenge, hist, calls, limiter, team>>

AddPoints ==
  \E points \in PointAmounts :
    /\ user.totalPoints + points <= MaxPoints
    /\ pre' = user
    /\ user' = addPoints(user, points, now)
    /\ resp' = Resp("addPoints", points, "ok", now)
    /\ UNCHANGED <<now, catalog, challenge, hist, calls, limiter, team>>

SpendPoints ==
  \E points \in SpendAmounts :
    /\ pre' = user
    /\ IF spendPointsThrows(user, points)
         THEN /\ user' = user
              /\ resp' = Resp("spendPoints", points, "Insufficient points", now)
         ELSE /\ user' = spendPoints(user, points, now)
              /\ resp' = Resp("spendPoints", points, "ok", now)
    /\ UNCHANGED <<now, catalog, challenge, hist, calls, limiter, team>>

UnlockAchievement ==
  \E id \in {WelcomeId} :
    /\ pre' = user
    /\ user' = unlockAchievement(user, id, 100, now)
    /\ resp' = Resp("unlockAchievement", id, "ok", now)
    /\ UNCHANGED <<now, catalog, challenge, hist, calls, limiter, team>>

Login ==
  \E entered \in Passwords :
    /\ user.loginCount < MaxLogins
    /\ pre' = user
    /\ IF ~matchPassword(user, entered)
         THEN /\ user' = user
              /\ resp' = Resp("login", entered, "Invalid credentials", now)
         ELSE /\ user' = save([user EXCEPT !.lastLoginAt = now, !.loginCount = @ + 1], now, FALSE)
              /\ resp' = Resp("login", entered, "ok", now)
    /\ UNCHANGED <<now, catalog, challenge, hist, calls, limiter, team>>

ChangePassword ==
  \E currentPassword \in Passwords, newPassword \in Passwords :
    /\ pre' = user
    /\ IF ~matchPassword(user, currentPassword)
         THEN /\ user' = user
              /\ resp' = Resp("changePassword", newPassword, "Current password is incorrect", now)
         ELSE /\ user' = save([user EXCEPT !.password = newPassword], now, TRUE)
              /\ resp' = Resp("changePassword", newPassword, "ok", now)
    /\ UNCHANGED <<now, catalog, challenge, hist, calls, limiter, team>>

PlainSave ==
  /\ pre' = user
  /\ user' = save(user, now, FALSE)
  /\ resp' = Resp("save", 0, "ok", now)
  /\ UNCHANGED <<now, catalog, challenge, hist, calls, limiter, team>>

Next ==
  \/ Tick
  \/ AddPoints
  \/ SpendPoints
  \/ UnlockAchievement
  \/ Login
  \/ ChangePassword
  \/ PlainSave

Spec == Init /\ [][Next]_vars

\* ----------------------------------------------------- User properties
Saved ==
  /\ resp.result = "ok"
  /\ resp.op \in {"addPoints", "spendPoints", "unlockAchievement", "login", "changePassword", "save"}

DaysSince == (resp.at - pre.lastActivityDate) \div DayLen

\* C1: spendPoints(amount) fails with "Insufficient points" iff
\* amount > availablePoints at the call; a failed call changes no field; a
\* successful call lowers availablePoints by exactly amount and leaves
\* totalPoints and experience as they were.
C1_SpendPointsContract ==
  resp.op = "spendPoints" =>
    /\ (resp.result = "Insufficient points") <=> (resp.arg > pre.availablePoints)
    /\ resp.result = "Insufficient points" => user = pre
    /\ resp.result = "ok" =>
         /\ user.availablePoints = pre.availablePoints - resp.arg
         /\ user.totalPoints = pre.totalPoints
         /\ user.experience = pre.experience

C1_Witness ==
  /\ resp.op = "spendPoints"
  /\ resp.result = "ok"
  /\ resp.arg = pre.availablePoints
  /\ resp.arg > 0

\* C2: after every save the stored level is floor(experience / 1000) + 1
\* and is at least 1.
C2_LevelFromExperience ==
  /\ user.level = (user.experience \div 1000) + 1
  /\ user.level >= 1

C2_Witness ==
  /\ resp.op = "addPoints"
  /\ pre.level = 1
  /\ user.experience = 1000
  /\ user.level = 2

PointFields(u) == <<u.totalPoints, u.availablePoints, u.experience>>

\* C3: addPoints(a) raises totalPoints, availablePoints and experience by
\* exactly a in one save, and addPoints(a); addPoints(b) leaves the same three
\* fields as addPoints(b); addPoints(a).
C3_AddPointsAdditive ==
  /\ resp.op = "addPoints" =>
       PointFields(user) = <<pre.totalPoints + resp.arg,
                             pre.availablePoints + resp.arg,
                             pre.experience + resp.arg>>
  /\ \A a \in PointAmounts, b \in PointAmounts :
       PointFields(addPoints(addPoints(user, a, now), b, now))
         = PointFields(addPoints(addPoints(user, b, now), a, now))

C3_Witness ==
  /\ resp.op = "addPoints"
  /\ pre.totalPoints > 0
  /\ resp.arg # pre.totalPoints

\* C4: no operation on a user lowers the stored totalPoints, experience or
\* level.
C4_NeverDecreases ==
  [][ /\ user'.totalPoints >= user.totalPoints
      /\ user'.experience >= user.experience
      /\ user'.level >= user.level ]_vars

C4_Witness ==
  /\ resp.op = "spendPoints"
  /\ resp.result = "ok"
  /\ user.level >= 2
  /\ user.availablePoints < user.totalPoints

\* C5: on every save, with d whole days since lastActivityDate: d = 1 adds
\* one to currentStreak, d > 1 sets it to 1, d = 0 leaves currentStreak and
\* longestStreak alone, and lastActivityDate becomes the time of the save.
C5_StreakRule ==
  Saved =>
    /\ DaysSince = 1 => user.currentStreak = pre.currentStreak + 1
    /\ DaysSince > 1 => user.currentStreak = 1
    /\ DaysSince = 0 => /\ user.currentStreak = pre.currentStreak
                        /\ user.longestStreak = pre.longestStreak
    /\ user.lastActivityDate = resp.at

C5_Witness ==
  /\ Saved
  /\ DaysSince = 1
  /\ pre.currentStreak = 1
  /\ user.currentStreak = 2
  /\ user.lastActivityDate > pre.lastActivityDate

\* C6: after any save longestStreak >= currentStreak.
C6_LongestAtLeastCurrent == user.longestStreak >= user.currentStreak

\* C7: a save made on the calendar day directly after the day of the previous
\* save adds one to currentStreak, whatever the times of day.
C7_CalendarDayStreak ==
  (Saved /\ Day(resp.at) = Day(pre.lastActivityDate) + 1) =>
    user.currentStreak = pre.currentStreak + 1
\* ------------------------------------------------------ Achievement model
Scalar(n) == [isArray |-> FALSE, num |-> n, arr |-> <<>>]
Array(a) == [isArray |-> TRUE, num |-> 0, arr |-> a]

\* the number a criterion value stands for in a comparison: a one-element
\* array compares as its element, an empty one as 0, a longer one as NaN
IsNaN(v) == v.isArray /\ Len(v.arr) > 1
ToNumber(v) ==
  IF ~v.isArray THEN v.num
  ELSE IF Len(v.arr) = 0 THEN 0
  ELSE v.arr[1]

Includes(a, x) == \E i \in 1..Len(a) : a[i] = x

\* variant: between accepts a list longer than two
checkCriteria_anyLength(a, userStats) ==
  LET target == a.criteria.target
      operator == a.criteria.operator
      value == a.criteria.value
  IN  IF target \notin DOMAIN userStats THEN FALSE
      ELSE LET userValue == userStats[target]
           IN  CASE operator = ">=" -> ~IsNaN(value) /\ userValue >= ToNumber(value)
                 [] operator = ">"  -> ~IsNaN(value) /\ userValue > ToNumber(value)
                 [] operator = "="  -> ~value.isArray /\ userValue = value.num
                 [] operator = "<"  -> ~IsNaN(value) /\ userValue < ToNumber(value)
                 [] operator = "<=" -> ~IsNaN(value) /\ userValue <= ToNumber(value)
                 [] operator = "in" -> value.isArray /\ Includes(value.arr, userValue)
                 [] operator = "between" ->
                      /\ value.isArray
                      /\ Len(value.arr) >= 2
                      /\ userValue >= value.arr[1]
                      /\ userValue <= value.arr[2]
                 [] OTHER -> FALSE

checkCriteria(a, userStats) ==
  LET target == a.criteria.target
      operator == a.criteria.operator
      value == a.criteria.value
  IN  IF target \notin DOMAIN userStats THEN FALSE
      ELSE LET userValue == userStats[target]
           IN  CASE operator = ">=" -> ~IsNaN(value) /\ userValue >= ToNumber(value)
                 [] operator = ">"  -> ~IsNaN(value) /\ userValue > ToNumber(value)
                 [] operator = "="  -> ~value.isArray /\ userValue = value.num
                 [] operator = "<"  -> ~IsNaN(value) /\ userValue < ToNumber(value)
                 [] operator = "<=" -> ~IsNaN(value) /\ userValue <= ToNumber(value)
                 [] operator = "in" -> value.isArray /\ Includes(value.arr, userValue)
                 [] operator = "between" ->
                      /\ value.isArray
                      /\ Len(value.arr) = 2
                      /\ userValue >= value.arr[1]
                      /\ userValue <= value.arr[2]
                 [] OTHER -> FALSE

onUnlocked(a, t) ==
  LET n == a.stats.totalUnlocked + 1
  IN  [a EXCEPT !.stats = [totalUnlocked |-> n,
                           uniqueUsers |-> n,
                           firstUnlockedAt |-> IF @.firstUnlockedAt = NoDate THEN t ELSE @.firstUnlockedAt,
                           lastUnlockedAt |-> t]]

unlockedAchievementIds(u) == {u.achievements[i].achievementId : i \in 1..Len(u.achievements)}

\* variant: the query without the $nin filter on the ids already held
availableAchievements_noNin(cat, u, t) ==
  {id \in DOMAIN cat :
     /\ cat[id].isActive
     /\ (cat[id].availableTo = NoDate \/ cat[id].availableTo >= t)}

\* the find() of checkAndUnlockForUser.  The filter object is written with
\* two $or keys; the later one replaces the earlier one, so the query that
\* is sent holds _id, isActive and the availableTo alternative only.
availableAchievements(cat, u, t) ==
  {id \in DOMAIN cat :
     /\ id \notin unlockedAchievementIds(u)
     /\ cat[id].isActive
     /\ (cat[id].availableTo = NoDate \/ cat[id].availableTo >= t)}

\* variant: the prerequisites are not looked at
prerequisitesMet_ignored(a, u) == TRUE

\* the prerequisite loop: stops at the first required prerequisite not held
prerequisitesMet(a, u) ==
  \A i \in 1..Len(a.prerequisites) :
    a.prerequisites[i].required => HasAchievement(u, a.prerequisites[i].achievementId)

\* the for-loop over the query result, in the order the query returned it
RECURSIVE unlockLoop(_, _, _, _, _, _)
unlockLoop(order, u, cat, newlyUnlocked, userStats, t) ==
  IF order = <<>> THEN [user |-> u, catalog |-> cat, newlyUnlocked |-> newlyUnlocked]
  ELSE LET id == Head(order)
           achievement == cat[id]
       IN  IF prerequisitesMet(achievement, u) /\ checkCriteria(achievement, userStats)
             THEN unlockLoop(Tail(order),
                             unlockAchievement(u, id, 100, t),
                             [cat EXCEPT ![id] = onUnlocked(achievement, t)],
                             Append(newlyUnlocked, id), userStats, t)
             ELSE unlockLoop(Tail(order), u, cat, newlyUnlocked, userStats, t)

\* the orders in which a query can return a set of documents
Orders(S) ==
  {o \in [1..Cardinality(S) -> S] : \A i, j \in 1..Cardinality(S) : i # j => o[i] # o[j]}

checkAndUnlockForUser(u, cat, order, userStats, t) ==
  unlockLoop(order, u, cat, <<>>, userStats, t)

\* --------------------------------------------------- Achievement inputs
NewAchievement(active, from, to, prereqs, crit) ==
  [ isActive |-> active, availableFrom |-> from, availableTo |-> to,
    prerequisites |-> prereqs, criteria |-> crit,
    stats |-> [totalUnlocked |-> 0, uniqueUsers |-> 0,
               firstUnlockedAt |-> NoDate, lastUnlockedAt |-> NoDate] ]

Criterion(target, operator, value) == [target |-> target, operator |-> operator, value |-> value]

LevelTen == Criterion("level", ">=", Scalar(10))

CriteriaInputs == {LevelTen, Criterion("streak", "between", Array(<<1, 3>>))}

PrereqInputs == {<<>>, <<[achievementId |-> 1, required |-> TRUE]>>,
                 <<[achievementId |-> 1, required |-> FALSE]>>}

FromInputs == {NoDate, 1}
ToInputs == {NoDate, 2}

Catalogs ==
  {c \in [AchIds -> UNION {{NewAchievement(act, from, to, pq, cr) :
                               act \in BOOLEAN, from \in FromInputs, to \in ToInputs} :
                             pq \in PrereqInputs, cr \in CriteriaInputs}] :
     /\ c[1].prerequisites = <<>>
     /\ c[1].criteria = LevelTen}

StatsInputs ==
  {[t \in {"level"} |-> 9], [t \in {"level"} |-> 10],
   [t \in {"level", "streak"} |-> IF t = "level" THEN 10 ELSE 2]}

MaxReturns == 2

\* -------------------------------------------------- Achievement actions
InitAch ==
  /\ now = 0
  /\ user = NewUser(now, 1)
  /\ pre = user
  /\ resp = Resp("register", 0, "ok", now)
  /\ catalog \in Catalogs
  /\ challenge = NoChallenge
  /\ hist = [id \in AchIds |-> 0]
  /\ calls = NoCalls
  /\ limiter = NoLimiter
  /\ team = NoTeam

CheckAndUnlock ==
  \E found \in BOOLEAN, userStats \in StatsInputs :
    /\ \A id \in AchIds : hist[id] < MaxReturns
    /\ pre' = user
    /\ IF ~found
         THEN /\ resp' = [Resp("checkAndUnlock", 0, "no user", now) EXCEPT !.stats = userStats]
              /\ UNCHANGED <<user, catalog, hist>>
         ELSE \E order \in Orders(availableAchievements(catalog, user, now)) :
                LET r == checkAndUnlockForUser(user, catalog, order, userStats, now)
                IN  /\ user' = r.user
                    /\ catalog' = r.catalog
                    /\ resp' = [Resp("checkAndUnlock", 1, "ok", now)
                                  EXCEPT !.stats = userStats, !.out = r.newlyUnlocked]
                    /\ hist' = [id \in AchIds |->
                                  hist[id] + IF Includes(r.newlyUnlocked, id) THEN 1 ELSE 0]
    /\ UNCHANGED <<now, challenge, calls, limiter, team>>

NextAch ==
  \/ Tick
  \/ CheckAndUnlock

SpecAch == InitAch /\ [][NextAch]_vars

\* ---------------------------------------------- Achievement properties
Called == resp.op = "checkAndUnlock" /\ resp.result = "ok"

Returned(id) == Includes(resp.out, id)

InWindow(a, t) ==
  /\ (a.availableFrom = NoDate \/ a.availableFrom <= t)
  /\ (a.availableTo = NoDate \/ a.availableTo >= t)

\* C8 as stated: across repeated checkAndUnlockForUser calls each achievement
\* is returned at most once, it is returned on the first call on which its
\* criterion is met, and it is never returned by a call on which its
\* criterion is not met.
C8_ReturnedOnceWhenMet ==
  Called =>
    \A id \in AchIds :
      /\ hist[id] <= 1
      /\ checkCriteria(catalog[id], resp.stats) => hist[id] >= 1
      /\ Returned(id) => checkCriteria(catalog[id], resp.stats)

\* C8 as amended: each achievement is returned at most once; it is returned
\* on the first call on which its criterion is met while it is active, its
\* availableTo has not passed and the user already holds all of its required
\* prerequisites; it is never returned by a call on which its criterion is
\* not met.
C8_ReturnedOnceWhenEligible ==
  Called =>
    \A id \in AchIds :
      /\ hist[id] <= 1
      /\ ( /\ checkCriteria(catalog[id], resp.stats)
           /\ catalog[id].isActive
           /\ (catalog[id].availableTo = NoDate \/ catalog[id].availableTo >= resp.at)
           /\ prerequisitesMet(catalog[id], pre) ) => hist[id] >= 1
      /\ Returned(id) => checkCriteria(catalog[id], resp.stats)

C8_Witness ==
  /\ Called
  /\ hist[1] = 1
  /\ ~Returned(1)
  /\ HasAchievement(pre, 1)
  /\ checkCriteria(catalog[1], resp.stats)

\* C9: checkAndUnlockForUser never unlocks or returns an achievement whose
\* availableFrom is later than now or whose availableTo is earlier than now.
C9_UnlockedInsideWindow ==
  Called =>
    \A id \in AchIds :
      (Returned(id) \/ (HasAchievement(user, id) /\ ~HasAchievement(pre, id)))
        => InWindow(catalog[id], resp.at)
\* -------------------------------------------------------- Challenge model
ChUsers == {1, 2, 3}
ProgressInputs == {-10, 50, 100, 150}
LimitInputs == {0, 2, 10}

Min(a, b) == IF a < b THEN a ELSE b

\* Math.round of the quotient a / b of two non-negative numbers
Round(a, b) == (2 * a + b) \div (2 * b)

RECURSIVE SumProgress(_)
SumProgress(ps) == IF ps = <<>> THEN 0 ELSE Head(ps).progress + SumProgress(Tail(ps))

\* pre('save'): the participant statistics (participants is modified by
\* both callers below)
updateStats(ch) ==
  LET ps == ch.participants
      n == Len(ps)
      completed == Cardinality({i \in 1..n : ps[i].completed})
  IN  [ch EXCEPT !.stats = [totalParticipants |-> n,
                            completionRate |-> IF n > 0 THEN Round(completed * 100, n) ELSE 0,
                            averageProgress |-> IF n > 0 THEN Round(SumProgress(ps), n) ELSE 0]]

IsParticipant(ch, userId) == \E i \in 1..Len(ch.participants) : ch.participants[i].userId = userId

ParticipantIndex(ch, userId) ==
  CHOOSE i \in 1..Len(ch.participants) : ch.participants[i].userId = userId

Truthy(x) == x # Null /\ x[1] # 0

\* variant: no check for an existing entry
addParticipantError_noExisting(ch, userId, t) ==
  IF Truthy(ch.maxParticipants) /\ Len(ch.participants) >= ch.maxParticipants[1]
    THEN "Challenge has reached maximum participants"
  ELSE IF ch.type = "team" /\ ~ch.teamSettings.allowJoinAfterStart /\ t > ch.startDate
    THEN "Cannot join team challenge after it has started"
  ELSE "ok"

\* the error addParticipant throws, or "ok"
addParticipantError(ch, userId, t) ==
  IF IsParticipant(ch, userId)
    THEN "User is already participating in this challenge"
  ELSE IF Truthy(ch.maxParticipants) /\ Len(ch.participants) >= ch.maxParticipants[1]
    THEN "Challenge has reached maximum participants"
  ELSE IF ch.type = "team" /\ ~ch.teamSettings.allowJoinAfterStart /\ t > ch.startDate
    THEN "Cannot join team challenge after it has started"
  ELSE "ok"

\* the document as addParticipant leaves it in memory, before save()
addParticipant(ch, userId, teamId, t) ==
  [ch EXCEPT !.participants =
    Append(@, [userId |-> userId, teamId |-> teamId, joinedAt |-> t,
               progress |-> 0, completed |-> FALSE, completedAt |-> NoDate])]

\* variant: the progress stored without the cap
updateProgress_noCap(ch, userId, progress, t) ==
  LET i == ParticipantIndex(ch, userId)
      p1 == [ch.participants[i] EXCEPT !.progress = progress]
      p2 == IF p1.progress >= 100 /\ ~p1.completed
              THEN [p1 EXCEPT !.completed = TRUE, !.completedAt = t]
              ELSE p1
  IN  [ch EXCEPT !.participants[i] = p2]

\* variant: completedAt stamped on every arrival at 100
updateProgress_restamp(ch, userId, progress, t) ==
  LET i == ParticipantIndex(ch, userId)
      p1 == [ch.participants[i] EXCEPT !.progress = Min(progress, 100)]
      p2 == IF p1.progress >= 100
              THEN [p1 EXCEPT !.completed = TRUE, !.completedAt = t]
              ELSE p1
  IN  [ch EXCEPT !.participants[i] = p2]

\* the document as updateProgress leaves it in memory, before save()
updateProgress(ch, userId, progress, t) ==
  LET i == ParticipantIndex(ch, userId)
      p1 == [ch.participants[i] EXCEPT !.progress = Min(progress, 100)]
      p2 == IF p1.progress >= 100 /\ ~p1.completed
              THEN [p1 EXCEPT !.completed = TRUE, !.completedAt = t]
              ELSE p1
  IN  [ch EXCEPT !.participants[i] = p2]

\* the schema validation save() runs on the participants: progress min 0
participantsValid(ch) ==
  \A i \in 1..Len(ch.participants) : ch.participants[i].progress >= 0

\* challenge.save(): rejected by validation, or stored after the stats hook
saveChallenge(stored, doc) ==
  IF participantsValid(doc) THEN updateStats(doc) ELSE stored

Num(b) == IF b THEN 1 ELSE 0

\* variant: among finishers the later completedAt first
compareParticipants_latestFirst(a, b) ==
  IF a.completed # b.completed THEN Num(b.completed) - Num(a.completed)
  ELSE IF a.progress # b.progress THEN b.progress - a.progress
  ELSE IF a.completed /\ b.completed THEN b.completedAt - a.completedAt
  ELSE a.joinedAt - b.joinedAt

\* the comparator handed to sort(): negative puts a first
compareParticipants(a, b) ==
  IF a.completed # b.completed THEN Num(b.completed) - Num(a.completed)
  ELSE IF a.progress # b.progress THEN b.progress - a.progress
  ELSE IF a.completed /\ b.completed THEN a.completedAt - b.completedAt
  ELSE a.joinedAt - b.joinedAt

\* Array.prototype.sort with that comparator: a stable sort
RECURSIVE InsertSorted(_, _)
InsertSorted(sorted, x) ==
  IF sorted = <<>> THEN <<x>>
  ELSE IF compareParticipants(Head(sorted), x) > 0 THEN <<x>> \o sorted
  ELSE <<Head(sorted)>> \o InsertSorted(Tail(sorted), x)

RECURSIVE Sort(_, _)
Sort(sorted, rest) ==
  IF rest = <<>> THEN sorted ELSE Sort(InsertSorted(sorted, Head(rest)), Tail(rest))

\* Array.prototype.slice(0, end)
Slice(s, end) ==
  LET k == IF end >= 0 THEN Min(end, Len(s)) ELSE Max(Len(s) + end, 0)
  IN  SubSeq(s, 1, k)

getLeaderboard(ch, limit) ==
  LET top == Slice(Sort(<<>>, ch.participants), limit)
  IN  [index \in 1..Len(top) |->
         [rank |-> index, userId |-> top[index].userId, progress |-> top[index].progress,
          completed |-> top[index].completed, completedAt |-> top[index].completedAt,
          joinedAt |-> top[index].joinedAt]]

\* ------------------------------------------------------ Challenge actions
InitCh ==
  /\ now = 0
  /\ user = NewUser(now, 1)
  /\ pre = user
  /\ resp = Resp("create", 0, "ok", now)
  /\ catalog = NoCatalog
  /\ challenge = NoChallenge
  /\ hist = NoHist
  /\ calls = NoCalls
  /\ limiter = NoLimiter
  /\ team = NoTeam

AddParticipant ==
  \E userId \in ChUsers :
    LET err == addParticipantError(challenge, userId, now)
    IN  /\ resp' = Resp("addParticipant", userId, err, now)
        /\ challenge' = IF err = "ok"
                          THEN saveChallenge(challenge, addParticipant(challenge, userId, Null, now))
                          ELSE challenge
        /\ UNCHANGED <<now, user, pre, catalog, hist, calls, limiter, team>>

UpdateProgress ==
  \E userId \in ChUsers, progress \in ProgressInputs :
    /\ IF ~IsParticipant(challenge, userId)
         THEN /\ resp' = Resp("updateProgress", userId, "User is not participating in this challenge", now)
              /\ challenge' = challenge
         ELSE LET doc == updateProgress(challenge, userId, progress, now)
              IN  /\ resp' = [Resp("updateProgress", userId,
                                    IF participantsValid(doc) THEN "ok" ELSE "Validation failed", now)
                                 EXCEPT !.arg2 = progress]
                  /\ challenge' = saveChallenge(challenge, doc)
    /\ UNCHANGED <<now, user, pre, catalog, hist, calls, limiter, team>>

GetLeaderboard ==
  \E limit \in LimitInputs :
    /\ resp' = [Resp("getLeaderboard", limit, "ok", now) EXCEPT !.out = getLeaderboard(challenge, limit)]
    /\ UNCHANGED <<now, user, pre, catalog, challenge, hist, calls, limiter, team>>

TickCh ==
  /\ now < MaxChTime
  /\ now' = now + 1
  /\ UNCHANGED <<user, pre, resp, catalog, challenge, hist, calls, limiter, team>>

NextCh ==
  \/ TickCh
  \/ AddParticipant
  \/ UpdateProgress
  \/ GetLeaderboard

SpecCh == InitCh /\ [][NextCh]_vars

\* addParticipant and updateProgress calls only
NextProgress ==
  \/ TickCh
  \/ AddParticipant
  \/ UpdateProgress

SpecProgress == InitCh /\ [][NextProgress]_vars

\* --------------------------------------------------- Challenge properties
\* a ranks strictly before b under the four keys of the leaderboard order
RanksBefore(a, b) ==
  \/ a.completed /\ ~b.completed
  \/ a.completed = b.completed /\ a.progress > b.progress
  \/ a.completed /\ b.completed /\ a.progress = b.progress /\ a.completedAt < b.completedAt
  \/ ~a.completed /\ ~b.completed /\ a.progress = b.progress /\ a.joinedAt < b.joinedAt

Entry(p, k) ==
  [rank |-> k, userId |-> p.userId, progress |-> p.progress, completed |-> p.completed,
   completedAt |-> p.completedAt, joinedAt |-> p.joinedAt]

Finisher(id, joined, at) ==
  [userId |-> id, teamId |-> Null, joinedAt |-> joined, progress |-> 100,
   completed |-> TRUE, completedAt |-> at]

ExampleChallenge ==
  [NoChallenge EXCEPT !.participants =
     << Finisher(1, 0, 5), Finisher(2, 0, 3),
        [userId |-> 3, teamId |-> Null, joinedAt |-> 1, progress |-> 50,
         completed |-> FALSE, completedAt |-> NoDate] >>]

UserIds(lb) == [i \in 1..Len(lb) |-> lb[i].userId]

C11_FinishersByFinishTime ==
  resp.op = "getLeaderboard" =>
    \A i, j \in 1..Len(resp.out) :
      ( /\ resp.out[i].completed
        /\ resp.out[j].completed
        /\ resp.out[i].completedAt < resp.out[j].completedAt ) => i < j

Stored(userId) == challenge.participants[ParticipantIndex(challenge, userId)]

\* C12: every participant's stored progress lies between 0 and 100, and
\* updateProgress(userId, 150) stores 100.
C12_ProgressInRange ==
  /\ \A i \in 1..Len(challenge.participants) :
       /\ challenge.participants[i].progress >= 0
       /\ challenge.participants[i].progress <= 100
  /\ (resp.op = "updateProgress" /\ resp.result = "ok" /\ resp.arg2 = 150)
       => Stored(resp.arg).progress = 100

C12_Witness ==
  /\ resp.op = "updateProgress"
  /\ resp.result = "ok"
  /\ resp.arg2 = 150
  /\ Stored(resp.arg).progress = 100
  /\ \E i \in 1..Len(challenge.participants) : challenge.participants[i].progress = 50

\* C13: the updateProgress call that first brings a participant to 100 sets
\* completed = true and completedAt = now; from then on, whatever further
\* updateProgress calls do to progress, completed stays true and completedAt
\* keeps its first value.
C13_CompletionSticks ==
  [][ \A i \in 1..Len(challenge.participants) :
        LET p == challenge.participants[i]
            q == challenge'.participants[i]
        IN  /\ p.completed => (q.completed /\ q.completedAt = p.completedAt)
            /\ (~p.completed /\ q.progress >= 100) => (q.completed /\ q.completedAt = now)
            /\ (~p.completed /\ q.completed) => (q.progress = 100 /\ q.completedAt = now)
    ]_vars

C13_Witness ==
  /\ resp.op = "updateProgress"
  /\ resp.result = "ok"
  /\ IsParticipant(challenge, resp.arg)
  /\ Stored(resp.arg).completed
  /\ Stored(resp.arg).completedAt < resp.at
  /\ \E i \in 1..Len(challenge.participants) :
       challenge.participants[i].completed /\ challenge.participants[i].progress < 100
\* ------------------------------------------- Joining a created challenge
\* what POST /challenges takes from the request body
TypeInputs == {"individual", "team"}
MaxParticipantsInputs == {Null, Number(0), Number(1), Number(2)}

\* POST /challenges: the body's fields, startDate = now
InitJoin ==
  /\ now = 0
  /\ user = NewUser(now, 1)
  /\ pre = user
  /\ resp = Resp("create", 0, "ok", now)
  /\ catalog = NoCatalog
  /\ \E type \in TypeInputs, maxParticipants \in MaxParticipantsInputs,
        allowJoinAfterStart \in BOOLEAN :
       challenge = NewChallenge(type, maxParticipants, allowJoinAfterStart, now)
  /\ hist = NoHist
  /\ calls = NoCalls
  /\ limiter = NoLimiter
  /\ team = NoTeam

NextJoin ==
  \/ TickCh
  \/ AddParticipant

SpecJoin == InitJoin /\ [][NextJoin]_vars

AlreadyParticipating == "User is already participating in this challenge"

C15_CapacityNeverExceeded ==
  challenge.maxParticipants # Null =>
    Len(challenge.participants) <= challenge.maxParticipants[1]
\* ------------------------------------------------------ Points properties
\* C20: from a newly registered user, under addPoints with positive amounts
\* and spendPoints, 0 <= availablePoints <= totalPoints.
C20_AvailableWithinTotal ==
  /\ 0 <= user.availablePoints
  /\ user.availablePoints <= user.totalPoints

C20_Witness ==
  /\ resp.op = "spendPoints"
  /\ resp.result = "ok"
  /\ user.availablePoints = 0
  /\ user.totalPoints > 0
\* ------------------------------------------------------------ Daily bonus
\* variant: the last activity compared by instant, not by calendar day
sameCalendarDay_exactTime(last, t) == last = t

\* lastActivity.setHours(0,0,0,0).getTime() === today.setHours(0,0,0,0).getTime()
sameCalendarDay(last, t) == Day(last) = Day(t)

AlreadyClaimed == "Daily bonus already claimed today"

\* the bonus for the user's streak
bonusPoints(u) ==
  50 + (IF u.currentStreak >= 7 THEN 25 ELSE 0)
     + (IF u.currentStreak >= 30 THEN 50 ELSE 0)
     + (IF u.currentStreak >= 100 THEN 100 ELSE 0)

\* POST /daily-bonus; hist lists the times of the successful claims
DailyBonus ==
  /\ user.totalPoints + bonusPoints(user) <= MaxPoints
  /\ pre' = user
  /\ IF sameCalendarDay(user.lastActivityDate, now)
       THEN /\ user' = user
            /\ resp' = Resp("dailyBonus", 0, AlreadyClaimed, now)
            /\ hist' = hist
       ELSE /\ user' = addPoints(user, bonusPoints(user), now)
            /\ resp' = Resp("dailyBonus", bonusPoints(user), "ok", now)
            /\ hist' = Append(hist, now)
  /\ UNCHANGED <<now, catalog, challenge, calls, limiter, team>>

NextBonus ==
  \/ Tick
  \/ DailyBonus
  \/ Login
  \/ AddPoints

SpecBonus == Init /\ [][NextBonus]_vars

\* a successful claim was made on the calendar day of t
ClaimedOn(h, t) == \E i \in 1..Len(h) : Day(h[i]) = Day(t)

\* C18: the daily bonus is claimed successfully at most once per calendar
\* day; after a successful claim every further request on that day is
\* rejected with 'Daily bonus already claimed today' and awards no points.
C18_OncePerDay ==
  [][ /\ \A i, j \in 1..Len(hist') : Day(hist'[i]) = Day(hist'[j]) => i = j
      /\ (resp'.op = "dailyBonus" /\ now' = now /\ ClaimedOn(hist, now)) =>
           /\ resp'.result = AlreadyClaimed
           /\ user' = user
           /\ hist' = hist
    ]_vars

C18_Witness ==
  /\ resp.op = "dailyBonus"
  /\ resp.result = AlreadyClaimed
  /\ ClaimedOn(hist, resp.at)
  /\ Len(hist) = 2
  /\ user.totalPoints = 100

\* C19: a request is rejected with 'Daily bonus already claimed today' only
\* when the bonus was already claimed successfully on that calendar day.
C19_RejectedOnlyAfterClaim ==
  (resp.op = "dailyBonus" /\ resp.result = AlreadyClaimed) => ClaimedOn(hist, resp.at)
\* ------------------------------------------------------ Concurrent calls
Callers == {1, 2}
Idle == [pc |-> "idle"]
Quiet == \A c \in Callers : calls[c].pc = "idle"

\* what save() of a loaded User document writes to the stored one: elements
\* pushed on achievements are appended, every other modified path is set
persistUser(stored, loaded, doc) ==
  [f \in DOMAIN doc |->
     IF f = "achievements"
       THEN stored.achievements \o
            SubSeq(doc.achievements, Len(loaded.achievements) + 1, Len(doc.achievements))
     ELSE IF doc[f] # loaded[f] THEN doc[f] ELSE stored[f]]

\* the catalogs of SpecAch whose achievements are all active and unbounded
RaceCatalogs ==
  {c \in Catalogs : \A id \in AchIds :
     c[id].isActive /\ c[id].availableFrom = NoDate /\ c[id].availableTo = NoDate}

InitRace ==
  /\ now = 0
  /\ user = NewUser(now, 1)
  /\ pre = user
  /\ resp = Resp("register", 0, "ok", now)
  /\ catalog \in RaceCatalogs
  /\ challenge = NoChallenge
  /\ hist = NoHist
  /\ calls = [c \in Callers |-> Idle]
  /\ limiter = NoLimiter
  /\ team = NoTeam

\* findById and find(): the call's own copies of the user and the candidates
Begin(c) ==
  \E userStats \in StatsInputs :
    /\ calls[c].pc = "idle"
    /\ \E order \in Orders(availableAchievements(catalog, user, now)) :
         calls' = [calls EXCEPT ![c] =
                     [pc |-> "loop", user |-> user, catalog |-> catalog, order |-> order,
                      userStats |-> userStats, newlyUnlocked |-> <<>>]]
    /\ UNCHANGED <<now, user, pre, resp, catalog, challenge, hist, limiter, team>>

\* one pass of the for-loop body, on the call's copies
Iterate(c) ==
  /\ calls[c].pc = "loop"
  /\ calls[c].order # <<>>
  /\ LET call == calls[c]
         id == Head(call.order)
         achievement == call.catalog[id]
     IN  IF prerequisitesMet(achievement, call.user) /\ checkCriteria(achievement, call.userStats)
           THEN LET doc == unlockAchievement(call.user, id, 100, now)
                IN  /\ user' = persistUser(user, call.user, doc)
                    /\ catalog' = [catalog EXCEPT ![id] = onUnlocked(achievement, now)]
                    /\ calls' = [calls EXCEPT ![c].user = doc,
                                              ![c].order = Tail(@),
                                              ![c].newlyUnlocked = Append(@, id)]
           ELSE /\ calls' = [calls EXCEPT ![c].order = Tail(@)]
                /\ UNCHANGED <<user, catalog>>
  /\ UNCHANGED <<now, pre, resp, challenge, hist, limiter, team>>

Return(c) ==
  /\ calls[c].pc = "loop"
  /\ calls[c].order = <<>>
  /\ resp' = [Resp("checkAndUnlock", c, "ok", now)
                EXCEPT !.stats = calls[c].userStats, !.out = calls[c].newlyUnlocked]
  /\ calls' = [calls EXCEPT ![c] = Idle]
  /\ UNCHANGED <<now, user, pre, catalog, challenge, hist, limiter, team>>

NextRace ==
  \/ \E c \in Callers : Begin(c)
  \/ \E c \in Callers : Iterate(c)
  \/ \E c \in Callers : Return(c)

SpecRace == InitRace /\ [][NextRace]_vars

\* C16: also when two checkAndUnlockForUser calls for the same user run
\* concurrently, achievements holds at most one entry per achievementId.
C16_OneEntryPerAchievement ==
  \A i, j \in 1..Len(user.achievements) :
    user.achievements[i].achievementId = user.achievements[j].achievementId => i = j

\* --------------------------------------- Join and progress requests
Me == 1
ChallengeId == 1
ChallengePoints == 1000
RouteProgressInputs == {50, 100}

\* what save() of a loaded Challenge document writes to the stored one:
\* pushed participants are appended, the modified fields of the others and
\* the stats of the pre-save hook are set; nothing when validation fails
persistChallenge(stored, loaded, doc) ==
  LET n == Len(loaded.participants)
      set == [i \in 1..Len(stored.participants) |->
                IF i > n THEN stored.participants[i]
                ELSE [f \in DOMAIN stored.participants[i] |->
                        IF doc.participants[i][f] # loaded.participants[i][f]
                          THEN doc.participants[i][f]
                          ELSE stored.participants[i][f]]]
  IN  IF ~participantsValid(doc) THEN stored
      ELSE [stored EXCEPT !.participants = set \o SubSeq(doc.participants, n + 1, Len(doc.participants)),
                          !.stats = updateStats(doc).stats]

HasActiveChallenge(u, challengeId) ==
  \E i \in 1..Len(u.activeChallenges) : u.activeChallenges[i].challengeId = challengeId

\* findOneAndUpdate with the positional $set on the first matching element
setActiveChallenge(u, challengeId, progress, t) ==
  IF ~HasActiveChallenge(u, challengeId) THEN u
  ELSE LET i == CHOOSE k \in 1..Len(u.activeChallenges) :
                  /\ u.activeChallenges[k].challengeId = challengeId
                  /\ \A m \in 1..(k - 1) : u.activeChallenges[m].challengeId # challengeId
       IN  IF progress >= 100
             THEN [u EXCEPT !.activeChallenges[i].progress = progress,
                            !.activeChallenges[i].completed = TRUE,
                            !.activeChallenges[i].completedAt = t]
             ELSE [u EXCEPT !.activeChallenges[i].progress = progress]

InitSync ==
  /\ now = 0
  /\ user = NewUser(now, 1)
  /\ pre = user
  /\ resp = Resp("register", 0, "ok", now)
  /\ catalog = NoCatalog
  /\ challenge = NoChallenge
  /\ hist = NoHist
  /\ calls = [c \in Callers |-> Idle]
  /\ limiter = NoLimiter
  /\ team = NoTeam

\* protect and validateResource: the request's copies of user and challenge;
\* a call keeps a copy for as long as the handler still reads it
JoinLoad(c) ==
  /\ calls[c].pc = "idle"
  /\ calls' = [calls EXCEPT ![c] = [pc |-> "join", challenge |-> challenge]]
  /\ UNCHANGED <<now, user, pre, resp, catalog, challenge, hist, limiter, team>>

\* first write of POST /:id/join: challenge.addParticipant
JoinAdd(c) ==
  /\ calls[c].pc = "join"
  /\ LET call == calls[c]
         err == addParticipantError(call.challenge, Me, now)
     IN  IF err # "ok"
           THEN /\ resp' = Resp("join", Me, err, now)
                /\ calls' = [calls EXCEPT ![c] = Idle]
                /\ challenge' = challenge
           ELSE /\ challenge' = persistChallenge(challenge, call.challenge,
                                                 addParticipant(call.challenge, Me, Null, now))
                /\ calls' = [calls EXCEPT ![c] = [pc |-> "joined"]]
                /\ resp' = resp
  /\ UNCHANGED <<now, user, pre, catalog, hist, limiter, team>>

\* second write of POST /:id/join: $push on activeChallenges
JoinPush(c) ==
  /\ calls[c].pc = "joined"
  /\ user' = [user EXCEPT !.activeChallenges =
                Append(@, [challengeId |-> ChallengeId, joinedAt |-> now, progress |-> 0,
                           completed |-> FALSE, completedAt |-> NoDate])]
  /\ resp' = Resp("join", Me, "ok", now)
  /\ calls' = [calls EXCEPT ![c] = Idle]
  /\ UNCHANGED <<now, pre, catalog, challenge, hist, limiter, team>>

ProgressLoad(c) ==
  \E progress \in RouteProgressInputs :
    /\ calls[c].pc = "idle"
    /\ user.totalPoints + ChallengePoints <= MaxPoints
    /\ calls' = [calls EXCEPT ![c] = [pc |-> "progress", user |-> user, challenge |-> challenge,
                                       progress |-> progress]]
    /\ UNCHANGED <<now, user, pre, resp, catalog, challenge, hist, limiter, team>>

\* first write of POST /:id/progress: challenge.updateProgress
ProgressUpdate(c) ==
  /\ calls[c].pc = "progress"
  /\ LET call == calls[c]
     IN  IF ~IsParticipant(call.challenge, Me)
           THEN /\ resp' = [Resp("progress", Me, "User is not participating in this challenge", now)
                              EXCEPT !.arg2 = call.progress]
                /\ calls' = [calls EXCEPT ![c] = Idle]
                /\ challenge' = challenge
           ELSE /\ challenge' = persistChallenge(challenge, call.challenge,
                                                 updateProgress(call.challenge, Me, call.progress, now))
                /\ calls' = [calls EXCEPT ![c] = [pc |-> "updated", user |-> call.user,
                                                   progress |-> call.progress]]
                /\ resp' = resp
  /\ UNCHANGED <<now, user, pre, catalog, hist, limiter, team>>

\* second write of POST /:id/progress: $set on the activeChallenges element
ProgressSet(c) ==
  /\ calls[c].pc = "updated"
  /\ user' = setActiveChallenge(user, ChallengeId, calls[c].progress, now)
  /\ IF calls[c].progress >= 100
       THEN /\ calls' = [calls EXCEPT ![c].pc = "award"]
            /\ resp' = resp
       ELSE /\ calls' = [calls EXCEPT ![c] = Idle]
            /\ resp' = [Resp("progress", Me, "ok", now) EXCEPT !.arg2 = calls[c].progress]
  /\ UNCHANGED <<now, pre, catalog, challenge, hist, limiter, team>>

\* third write of POST /:id/progress: req.user.addPoints(challenge.points)
ProgressAward(c) ==
  /\ calls[c].pc = "award"
  /\ user' = persistUser(user, calls[c].user, addPoints(calls[c].user, ChallengePoints, now))
  /\ resp' = [Resp("progress", Me, "ok", now) EXCEPT !.arg2 = calls[c].progress]
  /\ calls' = [calls EXCEPT ![c] = Idle]
  /\ UNCHANGED <<now, pre, catalog, challenge, hist, limiter, team>>

\* the request ends after a write and before the next one
Stop(c) ==
  /\ calls[c].pc \in {"joined", "updated", "award"}
  /\ resp' = Resp("stopped", Me, calls[c].pc, now)
  /\ calls' = [calls EXCEPT ![c] = Idle]
  /\ UNCHANGED <<now, user, pre, catalog, challenge, hist, limiter, team>>

NextSync ==
  \/ \E c \in Callers : JoinLoad(c)
  \/ \E c \in Callers : JoinAdd(c)
  \/ \E c \in Callers : JoinPush(c)
  \/ \E c \in Callers : ProgressLoad(c)
  \/ \E c \in Callers : ProgressUpdate(c)
  \/ \E c \in Callers : ProgressSet(c)
  \/ \E c \in Callers : ProgressAward(c)
  \/ \E c \in Callers : Stop(c)

SpecSync == InitSync /\ [][NextSync]_vars

\* C17: whenever no join or progress request is in flight, the user has a
\* participant entry in the challenge iff the challenge has an entry in the
\* user's activeChallenges, and the two agree on progress and completed.
C17_InSync ==
  Quiet =>
    /\ IsParticipant(challenge, Me) <=> HasActiveChallenge(user, ChallengeId)
    /\ \A i \in 1..Len(challenge.participants), j \in 1..Len(user.activeChallenges) :
         ( /\ challenge.participants[i].userId = Me
           /\ user.activeChallenges[j].challengeId = ChallengeId ) =>
           /\ challenge.participants[i].progress = user.activeChallenges[j].progress
           /\ challenge.participants[i].completed = user.activeChallenges[j].completed
\* ------------------------------------------------ Prerequisite properties
RequiredPrereqs(a) ==
  {a.prerequisites[k].achievementId :
     k \in {m \in 1..Len(a.prerequisites) : a.prerequisites[m].required}}

\* C21: every achievement checkAndUnlockForUser unlocks has each of its
\* required prerequisites in the user's achievements when it is unlocked
\* (the prerequisite's entry precedes its own); a candidate with a required
\* prerequisite the user does not hold is skipped even when its criterion
\* is met.
C21_PrerequisitesHeld ==
  Called =>
    \A id \in AchIds :
      /\ Returned(id) =>
           \A q \in RequiredPrereqs(catalog[id]) :
             /\ HasAchievement(user, q)
             /\ AchIndex(user, q) < AchIndex(user, id)
      /\ (HasAchievement(user, id) /\ ~HasAchievement(pre, id)) => Returned(id)
      /\ (\E q \in RequiredPrereqs(catalog[id]) : ~HasAchievement(user, q)) =>
           /\ ~Returned(id)
           /\ HasAchievement(user, id) = HasAchievement(pre, id)

C21_Witness ==
  /\ Called
  /\ checkCriteria(catalog[2], resp.stats)
  /\ catalog[2].isActive
  /\ RequiredPrereqs(catalog[2]) = {1}
  /\ ~HasAchievement(user, 1)
  /\ ~HasAchievement(user, 2)
  /\ ~Returned(2)

\* C22: within one checkAndUnlockForUser call, an achievement whose required
\* prerequisite was not held when the call began is not unlocked in that
\* call, whatever the order of evaluation.
C22_NoSamePassUnlock ==
  Called =>
    \A id \in AchIds :
      Returned(id) => \A q \in RequiredPrereqs(catalog[id]) : HasAchievement(pre, q)
\* ------------------------------------------------- checkCriteria inputs
KnownOperators == {">=", ">", "=", "<", "<=", "in", "between"}
CritOperators == KnownOperators \cup {"!="}
CritTargets == {"level", "steps"}
CritValues == {Scalar(5), Array(<<>>), Array(<<5>>), Array(<<3, 7>>), Array(<<3, 5, 7>>)}
CritStats ==
  {<<>>} \cup {[t \in {"level"} |-> v] : v \in {3, 4, 5, 9}}
         \cup {[t \in {"level", "steps"} |-> v] : v \in {0, 5}}

InitCrit ==
  /\ now = 0
  /\ user = NewUser(now, 1)
  /\ pre = user
  /\ resp = Resp("create", 0, "ok", now)
  /\ \E target \in CritTargets, operator \in CritOperators, value \in CritValues :
       catalog = [id \in {1} |->
                    NewAchievement(TRUE, NoDate, NoDate, <<>>, Criterion(target, operator, value))]
  /\ challenge = NoChallenge
  /\ hist = NoHist
  /\ calls = NoCalls
  /\ limiter = NoLimiter
  /\ team = NoTeam

\* achievement.checkCriteria(userStats)
CheckCriteria ==
  \E userStats \in CritStats :
    /\ resp' = [Resp("checkCriteria", 1,
                     IF checkCriteria(catalog[1], userStats) THEN "true" ELSE "false", now)
                  EXCEPT !.stats = userStats]
    /\ UNCHANGED <<now, user, pre, catalog, challenge, hist, calls, limiter, team>>

NextCrit ==
  \/ CheckCriteria

SpecCrit == InitCrit /\ [][NextCrit]_vars

\* C23: checkCriteria returns false when the stat is undefined or the
\* operator is unknown; otherwise the comparison of the stat with value for
\* >=, >, =, <, <=, membership for 'in' (false unless value is a list) and
\* value[0] <= stat <= value[1] for 'between' (false unless value is a list
\* of exactly two elements); it always returns a boolean.
C23_CheckCriteria ==
  resp.op = "checkCriteria" =>
    LET c == catalog[1].criteria
        s == resp.stats
        r == resp.result = "true"
    IN  /\ resp.result \in {"true", "false"}
        /\ c.target \notin DOMAIN s => ~r
        /\ c.operator \notin KnownOperators => ~r
        /\ c.target \in DOMAIN s =>
             LET x == s[c.target]
                 v == c.value
             IN  /\ (c.operator = ">=" /\ ~v.isArray) => (r <=> x >= v.num)
                 /\ (c.operator = ">" /\ ~v.isArray) => (r <=> x > v.num)
                 /\ (c.operator = "=" /\ ~v.isArray) => (r <=> x = v.num)
                 /\ (c.operator = "<" /\ ~v.isArray) => (r <=> x < v.num)
                 /\ (c.operator = "<=" /\ ~v.isArray) => (r <=> x <= v.num)
                 /\ c.operator = "in" =>
                      (r <=> (v.isArray /\ \E i \in 1..Len(v.arr) : v.arr[i] = x))
                 /\ c.operator = "between" =>
                      (r <=> (v.isArray /\ Len(v.arr) = 2 /\ v.arr[1] <= x /\ x <= v.arr[2]))

C23_Witness ==
  /\ resp.op = "checkCriteria"
  /\ catalog[1].criteria = Criterion("level", "between", Array(<<3, 7>>))
  /\ resp.stats = [t \in {"level"} |-> 5]
  /\ resp.result = "true"
\* ------------------------------------------------------- Profile requests
FirstNames == {1, 2}

\* PUT /profile: User.findByIdAndUpdate(req.user.id, updates), no save()
UpdateProfile ==
  \E firstName \in FirstNames :
    /\ pre' = user
    /\ user' = [user EXCEPT !.firstName = firstName]
    /\ resp' = Resp("updateProfile", firstName, "ok", now)
    /\ UNCHANGED <<now, catalog, challenge, hist, calls, limiter, team>>

NextProfile ==
  \/ Tick
  \/ UpdateProfile
  \/ ChangePassword

SpecProfile == Init /\ [][NextProfile]_vars

\* C24: a profile edit and a password change both advance lastActivityDate
\* to now and apply the streak rule (increment after one day, reset to 1
\* after more).
C24_StreakOnEveryChange ==
  (resp.op \in {"updateProfile", "changePassword"} /\ resp.result = "ok") =>
    /\ user.lastActivityDate = resp.at
    /\ DaysSince = 1 => user.currentStreak = pre.currentStreak + 1
    /\ DaysSince > 1 => user.currentStreak = 1
\* ----------------------------------------------------------- Rate limiter
MaxRlTime == 2000
MsPerSecond == 1000
TimeSteps == {500}
RlUsers == {1, 2}
NoUser == 0
MaxRequestsInputs == {0, 1, 2}
WindowInputs == {1000, 1500}

Ceil(a, b) == -((-a) \div b)

\* const userRequests = new Map()
rateLimitByUser(maxRequests, windowMs) ==
  [maxRequests |-> maxRequests, windowMs |-> windowMs, userRequests |-> <<>>]

\* variant: every stored time is kept
cleanOldEntries_keepAll(l, userId, t) ==
  IF userId \in DOMAIN l.userRequests THEN l.userRequests[userId] ELSE <<>>

\* the user's list after "Clean old entries"
cleanOldEntries(l, userId, t) ==
  IF userId \in DOMAIN l.userRequests
    THEN SelectSeq(l.userRequests[userId], LAMBDA time : time > t - l.windowMs)
    ELSE <<>>

\* variant: one request more than maxRequests is let through
limitReached_gt(l, userRequestList) == Len(userRequestList) > l.maxRequests

limitReached(l, userRequestList) == Len(userRequestList) >= l.maxRequests

\* Math.ceil((userRequestList[0] + windowMs - now) / 1000); NaN, sent as
\* null, when the list is empty
retryAfter(l, userRequestList, t) ==
  IF userRequestList = <<>> THEN Null
  ELSE Number(Ceil(userRequestList[1] + l.windowMs - t, MsPerSecond))

setRequests(l, userId, list) ==
  [l EXCEPT !.userRequests =
     [u \in DOMAIN @ \cup {userId} |-> IF u = userId THEN list ELSE @[u]]]

\* hist: per user the times of the requests passed on, the earliest time
\* promised by the rejections since the last one passed on, and the promise
\* that was open when the last one was passed on
NoLimitHist ==
  [accepted |-> [u \in RlUsers |-> <<>>], deadline |-> [u \in RlUsers |-> Null],
   redeemed |-> [u \in RlUsers |-> Null]]

InitLimit ==
  /\ now = 0
  /\ user = NewUser(now, 1)
  /\ pre = user
  /\ resp = Resp("create", 0, "ok", now)
  /\ catalog = NoCatalog
  /\ challenge = NoChallenge
  /\ hist = NoLimitHist
  /\ calls = NoCalls
  /\ \E maxRequests \in MaxRequestsInputs, windowMs \in WindowInputs :
       limiter = rateLimitByUser(maxRequests, windowMs)
  /\ team = NoTeam

TickLimit ==
  \E d \in TimeSteps :
    /\ now + d <= MaxRlTime
    /\ now' = now + d
    /\ UNCHANGED <<user, pre, resp, catalog, challenge, hist, calls, limiter, team>>

\* the middleware on a request without req.user
RequestAnonymous ==
  /\ resp' = Resp("request", NoUser, "next", now)
  /\ UNCHANGED <<now, user, pre, catalog, challenge, hist, calls, limiter, team>>

\* the middleware on a request of an authenticated user
Request ==
  \E userId \in RlUsers :
    LET userRequestList == cleanOldEntries(limiter, userId, now)
    IN  /\ IF limitReached(limiter, userRequestList)
             THEN LET r == retryAfter(limiter, userRequestList, now)
                      promised == IF r = Null THEN Null ELSE Number(now + r[1] * MsPerSecond)
                      old == hist.deadline[userId]
                  IN  /\ limiter' = setRequests(limiter, userId, userRequestList)
                      /\ resp' = [Resp("request", userId, "429", now) EXCEPT !.out = r]
                      /\ hist' = [hist EXCEPT !.deadline[userId] =
                                    IF old = Null THEN promised
                                    ELSE IF promised = Null THEN old
                                    ELSE Number(Min(old[1], promised[1]))]
             ELSE /\ limiter' = setRequests(limiter, userId, Append(userRequestList, now))
                  /\ resp' = Resp("request", userId, "next", now)
                  /\ hist' = [hist EXCEPT !.accepted[userId] = Append(@, now),
                                          !.deadline[userId] = Null,
                                          !.redeemed[userId] = hist.deadline[userId]]
        /\ UNCHANGED <<now, user, pre, catalog, challenge, calls, team>>

NextLimit ==
  \/ TickLimit
  \/ RequestAnonymous
  \/ Request

SpecLimit == InitLimit /\ [][NextLimit]_vars

\* the requests of userId passed on at a time in [from, from + windowMs)
PassedIn(userId, from) ==
  Cardinality({i \in 1..Len(hist.accepted[userId]) :
                 /\ hist.accepted[userId][i] >= from
                 /\ hist.accepted[userId][i] < from + limiter.windowMs})

\* C25: for every user, the number of requests passed on to the handler
\* within any interval of length windowMs never exceeds maxRequests, and
\* rejected requests do not count against the limit.
C25_AtMostMaxPerWindow ==
  /\ \A userId \in RlUsers :
       \A i \in 1..Len(hist.accepted[userId]) :
         PassedIn(userId, hist.accepted[userId][i]) <= limiter.maxRequests
  /\ \A userId \in DOMAIN limiter.userRequests :
       \A i \in 1..Len(limiter.userRequests[userId]) :
         \E j \in 1..Len(hist.accepted[userId]) :
           hist.accepted[userId][j] = limiter.userRequests[userId][i]

C25_Witness ==
  /\ limiter.maxRequests = 2
  /\ resp.op = "request"
  /\ resp.result = "next"
  /\ resp.arg = 1
  /\ Len(hist.accepted[1]) = 4
  /\ Len(limiter.userRequests[1]) = 2

\* C26: after a rejection with retryAfter = r seconds, a request of that
\* user arriving r seconds or more after the rejection, with none of their
\* requests passed on in between, is passed on.
C26_NotLockedOut ==
  [][ \A userId \in RlUsers :
        ( /\ resp'.op = "request"
          /\ resp'.arg = userId
          /\ now' = now
          /\ hist.deadline[userId] # Null
          /\ now >= hist.deadline[userId][1] ) => resp'.result = "next"
    ]_vars

C26_Witness ==
  /\ resp.op = "request"
  /\ resp.result = "next"
  /\ resp.arg = 1
  /\ limiter.maxRequests = 2
  /\ limiter.windowMs = 1500
  /\ hist.redeemed[1] # Null
  /\ resp.at >= hist.redeemed[1][1]
  /\ Len(limiter.userRequests[1]) = 2
\* ------------------------------------------------------ Completion points
\* C27: across any sequence of progress requests of one user for one
\* challenge, addPoints(challenge.points) is applied at most once (the only
\* points of this user are completion points of the one challenge).
C27_AwardedOnce == user.totalPoints <= ChallengePoints
\* -------------------------------------------- Concurrent spend requests
\* hist: the total of the points spent by the requests that succeeded
InitSpend ==
  /\ now = 0
  /\ user = NewUser(now, 1)
  /\ pre = user
  /\ resp = Resp("register", 0, "ok", now)
  /\ catalog = NoCatalog
  /\ challenge = NoChallenge
  /\ hist = 0
  /\ calls = [c \in Callers |-> Idle]
  /\ limiter = NoLimiter
  /\ team = NoTeam

\* protect: the request's own copy of the user; body.points
SpendLoad(c) ==
  \E points \in SpendAmounts :
    /\ calls[c].pc = "idle"
    /\ calls' = [calls EXCEPT ![c] = [pc |-> "spend", user |-> user, points |-> points]]
    /\ UNCHANGED <<now, user, pre, resp, catalog, challenge, hist, limiter, team>>

\* the handler of POST /spend-points on the request's copy
SpendSave(c) ==
  /\ calls[c].pc = "spend"
  /\ LET call == calls[c]
     IN  IF call.user.availablePoints < call.points \/ spendPointsThrows(call.user, call.points)
           THEN /\ resp' = Resp("spendPoints", call.points, "Insufficient points", now)
                /\ UNCHANGED <<user, hist>>
           ELSE /\ user' = persistUser(user, call.user, spendPoints(call.user, call.points, now))
                /\ resp' = Resp("spendPoints", call.points, "ok", now)
                /\ hist' = hist + call.points
  /\ calls' = [calls EXCEPT ![c] = Idle]
  /\ UNCHANGED <<now, pre, catalog, challenge, limiter, team>>

\* points are earned while no spend request is in flight
Earn ==
  /\ Quiet
  /\ AddPoints

NextSpend ==
  \/ Earn
  \/ \E c \in Callers : SpendLoad(c)
  \/ \E c \in Callers : SpendSave(c)

SpecSpend == InitSpend /\ [][NextSpend]_vars

\* C28: under any interleaving of spend-points requests of one user, the
\* points successfully spent never exceed the points earned, and the stored
\* availablePoints equals earned minus successfully spent.
C28_SpentWithinEarned ==
  /\ hist <= user.totalPoints
  /\ user.availablePoints = user.totalPoints - hist

\* ------------------------------------------------------- Challenge detail
DefaultLimit == 10

\* this.participants.sort(...) orders the array of the document it is called on
sortParticipants(ch) == [ch EXCEPT !.participants = Sort(<<>>, ch.participants)]

\* GET /:id: the loaded document answers after getLeaderboard has run on it
GetChallenge ==
  LET doc == challenge
      leaderboard == getLeaderboard(doc, DefaultLimit)
      after == sortParticipants(doc)
  IN  /\ resp' = [Resp("getChallenge", ChallengeId, "ok", now)
                    EXCEPT !.out = [participants |-> after.participants,
                                    leaderboard |-> leaderboard]]
      /\ UNCHANGED <<now, user, pre, catalog, challenge, hist, calls, limiter, team>>

NextDetail ==
  \/ TickCh
  \/ AddParticipant
  \/ UpdateProgress
  \/ GetChallenge

SpecDetail == InitCh /\ [][NextDetail]_vars

\* C29: getLeaderboard is a read-only query: the document it was called on
\* still has its participants in the order they had before the call
C29_LeaderboardReadOnly ==
  resp.op = "getChallenge" => resp.out.participants = challenge.participants


\* ------------------------------------------------------------- Team model
TeamUsers == {1, 2, 3}
Reasons == {"left", "banned"}
TeamMaxMembers == 2

Banned == "User is banned from this team"

NewTeam(creator, joinRequests) ==
  [creator |-> creator, leaders |-> <<>>, members |-> <<>>, joinRequests |-> joinRequests,
   maxMembers |-> TeamMaxMembers,
   stats |-> [totalPoints |-> 0, averagePoints |-> 0, activityScore |-> 0]]

NewMember(userId, role, t) ==
  [userId |-> userId, role |-> role, joinedAt |-> t, status |-> "active",
   contributions |-> [totalPoints |-> 0]]

\* Array.prototype.findIndex on members by userId, from 1; 0 when there is none
memberIndex(t, userId) ==
  LET found == {i \in 1..Len(t.members) : t.members[i].userId = userId}
  IN  IF found = {} THEN 0 ELSE CHOOSE i \in found : \A j \in found : i <= j

activeMembers(t) == SelectSeq(t.members, LAMBDA m : m.status = "active")

RECURSIVE SumPoints(_)
SumPoints(ms) ==
  IF ms = <<>> THEN 0 ELSE Head(ms).contributions.totalPoints + SumPoints(Tail(ms))

\* the pre-save hook of the team, then the write
saveTeam(doc) ==
  LET active == activeMembers(doc)
  IN  IF Len(active) > 0
        THEN [doc EXCEPT !.stats.totalPoints = SumPoints(active),
                         !.stats.averagePoints = Round(SumPoints(active), Len(active)),
                         !.stats.activityScore = Round(Len(active) * 100, doc.maxMembers)]
        ELSE doc

addMemberError(t, userId) ==
  LET i == memberIndex(t, userId)
  IN  IF i # 0
        THEN IF t.members[i].status = "banned" THEN Banned
             ELSE IF t.members[i].status = "inactive" THEN "ok"
             ELSE "User is already a member of this team"
        ELSE IF Len(activeMembers(t)) >= t.maxMembers THEN "Team has reached maximum capacity"
        ELSE "ok"

\* the document addMember saves when it does not throw
addMember(t, userId, role, at) ==
  LET i == memberIndex(t, userId)
  IN  IF i # 0
        THEN [t EXCEPT !.members[i].status = "active", !.members[i].joinedAt = at]
        ELSE [t EXCEPT !.members = Append(@, NewMember(userId, role, at)),
                       !.joinRequests = SelectSeq(@, LAMBDA r : r.userId # userId)]

\* the active member other than userId who joined first, or <<>>
seniorMember(t, userId) ==
  LET others == SelectSeq(t.members, LAMBDA m : m.userId # userId /\ m.status = "active")
      first == {i \in 1..Len(others) :
                  /\ \A j \in 1..Len(others) : others[i].joinedAt <= others[j].joinedAt
                  /\ \A j \in 1..(i - 1) : others[j].joinedAt # others[i].joinedAt}
  IN  IF others = <<>> THEN <<>> ELSE <<others[CHOOSE i \in first : TRUE]>>

\* the document removeMember saves when userId has an entry in members
removeMember(t, userId, reason, at) ==
  LET i == memberIndex(t, userId)
      otherLeaders == SelectSeq(t.leaders, LAMBDA l : l.userId # userId)
      senior == seniorMember(t, userId)
      t1 == IF t.creator # userId THEN t
            ELSE IF Len(otherLeaders) > 0 THEN [t EXCEPT !.creator = otherLeaders[1].userId]
            ELSE IF senior # <<>>
              THEN [t EXCEPT !.creator = senior[1].userId,
                             !.leaders = Append(@, [userId |-> senior[1].userId, role |-> "captain",
                                                    appointedAt |-> at])]
            ELSE t
      t2 == [t1 EXCEPT !.leaders = SelectSeq(@, LAMBDA l : l.userId # userId)]
  IN  IF reason = "banned"
        THEN [t2 EXCEPT !.members[i].status = "banned"]
        ELSE [t2 EXCEPT !.members = SubSeq(@, 1, i - 1) \o SubSeq(@, i + 1, Len(@))]

\* ----------------------------------------------------------- Team actions
\* hist: the users removed with reason 'banned' so far
InitTeam ==
  /\ now = 0
  /\ user = NewUser(now, 1)
  /\ pre = user
  /\ resp = Resp("create", 0, "ok", now)
  /\ catalog = NoCatalog
  /\ challenge = NoChallenge
  /\ hist = {}
  /\ calls = NoCalls
  /\ limiter = NoLimiter
  /\ \E creator \in TeamUsers :
       \E joinRequests \in {<<>>} \cup {<<[userId |-> u, status |-> "pending"]>> : u \in TeamUsers} :
         team = NewTeam(creator, joinRequests)

AddMember ==
  \E userId \in TeamUsers :
    LET err == addMemberError(team, userId)
    IN  /\ resp' = Resp("addMember", userId, err, now)
        /\ team' = IF err = "ok" THEN saveTeam(addMember(team, userId, "member", now)) ELSE team
        /\ UNCHANGED <<now, user, pre, catalog, challenge, hist, calls, limiter>>

RemoveMember ==
  \E userId \in TeamUsers, reason \in Reasons :
    /\ IF memberIndex(team, userId) = 0
         THEN /\ resp' = [Resp("removeMember", userId, "User is not a member of this team", now)
                            EXCEPT !.arg2 = reason]
              /\ UNCHANGED <<team, hist>>
         ELSE /\ resp' = [Resp("removeMember", userId, "ok", now) EXCEPT !.arg2 = reason]
              /\ team' = saveTeam(removeMember(team, userId, reason, now))
              /\ hist' = IF reason = "banned" THEN hist \cup {userId} ELSE hist
    /\ UNCHANGED <<now, user, pre, catalog, challenge, calls, limiter>>

NextTeam ==
  \/ TickCh
  \/ AddMember
  \/ RemoveMember

SpecTeam == InitTeam /\ [][NextTeam]_vars

\* --------------------------------------------------------- Team properties
IsActiveMember(t, userId) ==
  \E i \in 1..Len(t.members) : t.members[i].userId = userId /\ t.members[i].status = "active"

\* C30: a user once removed with reason 'banned' is never an active member
\* of that team again, and every later addMember for that user fails with
\* 'User is banned from this team'
C30_BannedStaysOut ==
  /\ \A userId \in hist : ~IsActiveMember(team, userId)
  /\ (resp.op = "addMember" /\ resp.arg \in hist) => resp.result = Banned

====
